---- MODULE Spec2Model ----
(***************************************************************************)
(* Model of src/data.py: the two dataset adapters CorpusQA and CorpusSC,   *)
(* their disk caches and their indexed access.                             *)
(*                                                                         *)
(* A file system maps paths to file contents.  Constructing a dataset is   *)
(* one atomic step (the code is single-threaded and synchronous).  The     *)
(* environment may write source files, delete cache files by hand and      *)
(* damage cache files.                                                     *)
(*                                                                         *)
(* Text is abstracted to its token count; a tensor row is a run-length     *)
(* encoded sequence <<[v |-> value, n |-> count], ...>> without empty runs.*)
(***************************************************************************)
EXTENDS Integers, Sequences, FiniteSets, TLC

VARIABLES
    fs,        \* the data directory: path -> content of the file at that path
    last,      \* the latest constructor call: its arguments, the instance it
               \* built (data, dataset, examples, features) or the error raised
    envSteps   \* changes made to the directory outside the program so far

vars == <<fs, last, envSteps>>

(***************************************************************************)
(* Bounds of the model.                                                    *)
(***************************************************************************)
MaxRows == 2
MaxExamples == 2
MaxEnvSteps == 1

(***************************************************************************)
(* Program constants.                                                      *)
(***************************************************************************)
doc_stride == 128
max_query_len == 64
max_seq_len == 384
max_sequence_length == 128

None == [kind |-> "none"]
Garbage == [kind |-> "garbage"]

(***************************************************************************)
(* Run-length encoded tensor rows.                                         *)
(***************************************************************************)
Run(v, n) == [v |-> v, n |-> n]

Runs(rs) == SelectSeq(rs, LAMBDA r : r.n > 0)

RECURSIVE SeqLength(_)
SeqLength(t) == IF t = <<>> THEN 0 ELSE Head(t).n + SeqLength(Tail(t))

Max(a, b) == IF a >= b THEN a ELSE b
Min(a, b) == IF a <= b THEN a ELSE b

RECURSIVE MaxOf(_)
MaxOf(s) == IF s = <<>> THEN 0 ELSE Max(Head(s), MaxOf(Tail(s)))

(***************************************************************************)
(* Paths: a path is the sequence of its "/"-separated components, and a    *)
(* component is the sequence of the string pieces concatenated to form it. *)
(***************************************************************************)
SCPath == << <<"data">>, <<"sc.tsv">> >>
QAPath == << <<"data">>, <<"qa.json">> >>

ModelNames == {"xlm-roberta-base", "xlm-roberta-large", "bert-base-multilingual-cased"}

\* AutoTokenizer.from_pretrained: the tokenizer class chosen for a model name.
TokenizerClass(model_name, use_fast) ==
    IF model_name = "bert-base-multilingual-cased"
    THEN (IF use_fast THEN "BertTokenizerFast" ELSE "BertTokenizer")
    ELSE (IF use_fast THEN "XLMRobertaTokenizerFast" ELSE "XLMRobertaTokenizer")

IsRoberta(tok) == tok \in {"XLMRobertaTokenizerFast", "XLMRobertaTokenizer"}

\* Special tokens the tokenizer adds around a pair / a single sequence.
PairAddedTokens(tok) == IF IsRoberta(tok) THEN 4 ELSE 3
ClsId(tok) == IF IsRoberta(tok) THEN 0 ELSE 101
SepId(tok) == IF IsRoberta(tok) THEN 2 ELSE 102
PadId(tok) == IF IsRoberta(tok) THEN 1 ELSE 0
\* Vocabulary id of the words of segment seg (1: first text, 2: second text).
WordId(seg) == 1000 + seg

\* CorpusSC: path + "_<Tokenizer>.pickle"
CachedDataFile(path, tok) ==
    [path EXCEPT ![Len(path)] = @ \o <<"_", tok, ".pickle">>]

\* CorpusQA: os.path.join(data_dir, "cached_<Tokenizer>_<filename>")
CachedFeaturesFile(file, tok) ==
    LET filename == file[Len(file)]
        data_dir == SubSeq(file, 1, Len(file) - 1)
    IN  Append(data_dir, <<"cached_", tok, "_">> \o filename)

Exists(f, p) == p \in DOMAIN f

WriteFile(f, p, content) == [q \in DOMAIN f \cup {p} |-> IF q = p THEN content ELSE f[q]]

RemoveFile(f, p) == [q \in DOMAIN f \ {p} |-> f[q]]

(***************************************************************************)
(* CorpusSC                                                                *)
(***************************************************************************)
\* The class ids numbered from 1.
label_dict_from_one == [contradiction |-> 1, entailment |-> 2, neutral |-> 3]

label_dict == [contradiction |-> 0, entailment |-> 1, neutral |-> 2]

\* pd.read_csv(path, sep="\t", header=None, names=header): the three columns,
\* or the error the reader raises.
ReadCsv(f, path) ==
    IF ~Exists(f, path) THEN [error |-> "FileNotFoundError", df |-> <<>>]
    ELSE IF f[path].kind # "tsv" THEN [error |-> "ParserError", df |-> <<>>]
    ELSE [error |-> "ok", df |-> f[path].rows]

\* truncation=True (longest_first): remove tokens one at a time from the
\* longer of the two texts.
RECURSIVE TruncateLongestFirst(_, _, _)
TruncateLongestFirst(p, h, remove) ==
    IF remove <= 0 \/ (p = 0 /\ h = 0) THEN <<p, h>>
    ELSE IF p > h THEN TruncateLongestFirst(p - 1, h, remove - 1)
    ELSE TruncateLongestFirst(p, h - 1, remove - 1)

\* Lengths <<premise, hypothesis>> of one pair after truncation to max_length.
TruncatedPair(tok, row, max_length) ==
    TruncateLongestFirst(row.premise, row.hypothesis,
        row.premise + row.hypothesis + PairAddedTokens(tok) - max_length)

PairLength(tok, row, max_length) ==
    LET t == TruncatedPair(tok, row, max_length)
    IN  t[1] + t[2] + PairAddedTokens(tok)

\* padding="max_length": every row padded to max_length.
PaddedLengthMax(tok, df, max_length) == max_length

\* padding=True pads every row to the longest row of the batch.
PaddedLength(tok, df, max_length) ==
    MaxOf([i \in 1..Len(df) |-> PairLength(tok, df[i], max_length)])

\* One encoded row of the batch, padded to width.
EncodeInputIds(tok, row, max_length, width) ==
    LET t == TruncatedPair(tok, row, max_length)
        real == t[1] + t[2] + PairAddedTokens(tok)
    IN  Runs(<< Run(ClsId(tok), 1), Run(WordId(1), t[1]),
                Run(SepId(tok), PairAddedTokens(tok) - 2),
                Run(WordId(2), t[2]), Run(SepId(tok), 1),
                Run(PadId(tok), width - real) >>)

EncodeAttentionMask(tok, row, max_length, width) ==
    LET real == PairLength(tok, row, max_length)
    IN  Runs(<< Run(1, real), Run(0, width - real) >>)

EncodeTokenTypeIds(tok, row, max_length, width) ==
    LET t == TruncatedPair(tok, row, max_length)
        real == t[1] + t[2] + PairAddedTokens(tok)
    IN  IF IsRoberta(tok) THEN Runs(<< Run(0, width) >>)
        ELSE Runs(<< Run(0, t[1] + 2), Run(1, t[2] + 1), Run(0, width - real) >>)

\* self.tokenizer(premise_list, hypothesis_list, max_length=..., truncation=True,
\* padding=True, ...): the three batch tensors.
Tokenize(tok, df, max_length) ==
    LET width == PaddedLength(tok, df, max_length)
    IN  [input_ids |-> [i \in 1..Len(df) |-> EncodeInputIds(tok, df[i], max_length, width)],
         attention_mask |-> [i \in 1..Len(df) |-> EncodeAttentionMask(tok, df[i], max_length, width)],
         token_type_ids |-> [i \in 1..Len(df) |-> EncodeTokenTypeIds(tok, df[i], max_length, width)]]

\* [self.label_dict[label] for label in label_list]
KnownLabels(df) == \A i \in 1..Len(df) : df[i].label \in DOMAIN label_dict

Labels(df) == [i \in 1..Len(df) |-> label_dict[df[i].label]]

\* The dict assembled with every tokenizer output under its own name.
AssembleSCUnswapped(ids, labels) ==
    [input_ids |-> ids.input_ids,
     token_type_ids |-> ids.token_type_ids,
     attention_mask |-> ids.attention_mask,
     label |-> labels]

\* The dataset dict assembled by CorpusSC.preprocess.
AssembleSC(ids, labels) ==
    [input_ids |-> ids.input_ids,
     token_type_ids |-> ids.attention_mask,
     attention_mask |-> ids.token_type_ids,
     label |-> labels]

\* label_dict.get(label, 0): an unknown label silently becomes class 0.
PreprocessSCDefaultLabel(f, path, tok) ==
    LET csv == ReadCsv(f, path)
    IN  IF csv.error # "ok" THEN [error |-> csv.error, dataset |-> None]
        ELSE [error |-> "ok",
              dataset |-> AssembleSC(Tokenize(tok, csv.df, max_sequence_length),
                            [i \in 1..Len(csv.df) |->
                               IF csv.df[i].label \in DOMAIN label_dict
                               THEN label_dict[csv.df[i].label] ELSE 0])]

\* CorpusSC.preprocess: the dataset, or the first error raised.
\* (The tokenizer has already run when the label lookup raises.)
PreprocessSC(f, path, tok) ==
    LET csv == ReadCsv(f, path)
        ids == Tokenize(tok, csv.df, max_sequence_length)
    IN  IF csv.error # "ok" THEN [error |-> csv.error, dataset |-> None]
        ELSE IF ~KnownLabels(csv.df) THEN [error |-> "KeyError", dataset |-> None]
        ELSE [error |-> "ok", dataset |-> AssembleSC(ids, Labels(csv.df))]

\* pickle.dump / pickle.load of a dict: its items in insertion order.
SCKeys == <<"input_ids", "token_type_ids", "attention_mask", "label">>

PickleDump(d, keys) ==
    [kind |-> "pickle", items |-> [i \in 1..Len(keys) |-> <<keys[i], d[keys[i]]>>]]

PickleLoad(content) ==
    IF content.kind # "pickle" THEN [error |-> "UnpicklingError", obj |-> None]
    ELSE [error |-> "ok",
          obj |-> [k \in {content.items[i][1] : i \in 1..Len(content.items)} |->
                     LET i == CHOOSE j \in 1..Len(content.items) : content.items[j][1] = k
                     IN  content.items[i][2]]]

\* CorpusSC.__len__ and CorpusSC.__getitem__
\* (ids are 0-based as in the code; sequences of the model are 1-based).
LenSC(data) == Len(data["input_ids"])

GetItemSC(data, id) ==
    [input_ids |-> data["input_ids"][id + 1],
     token_type_ids |-> data["token_type_ids"][id + 1],
     attention_mask |-> data["attention_mask"][id + 1],
     label |-> data["label"][id + 1]]

(***************************************************************************)
(* CorpusQA                                                                *)
(***************************************************************************)
\* SquadV1Processor.get_train_examples / get_dev_examples: the examples of
\* the file, marked with the extraction that produced them, or the error.
GetExamples(f, file, evaluate) ==
    IF ~Exists(f, file) THEN [error |-> "FileNotFoundError", examples |-> <<>>]
    ELSE IF f[file].kind # "squad" THEN [error |-> "JSONDecodeError", examples |-> <<>>]
    ELSE [error |-> "ok",
          examples |-> [i \in 1..Len(f[file].qas) |->
                          [qas_id |-> i,
                           question |-> f[file].qas[i].question,
                           context |-> f[file].qas[i].context,
                           answer_start |-> f[file].qas[i].answer_start,
                           extraction |-> IF evaluate THEN "dev" ELSE "train"]]]

\* Number of tokens before the document in a feature window.
DocOffset(tok, qlen) == qlen + (IF IsRoberta(tok) THEN 3 ELSE 2)

\* Document tokens a window can hold.
MaxDocTokens(tok, qlen, max_seq_length) == max_seq_length - qlen - PairAddedTokens(tok)

\* Number of sliding windows of one example: windows start every doc_stride
\* tokens until one reaches the end of the document.
RECURSIVE NumSpans(_, _, _, _)
NumSpans(clen, width, stride, k) ==
    IF k * stride + width >= clen \/ (k + 1) * stride >= clen THEN k + 1
    ELSE NumSpans(clen, width, stride, k + 1)

\* One feature (window k, 0-based) of one example.
Feature(tok, ex, example_index, k, max_seq_length, stride, max_query_length, is_training) ==
    LET qlen == Min(ex.question, max_query_length)
        width == MaxDocTokens(tok, qlen, max_seq_length)
        doc_start == k * stride
        paragraph_len == Min(ex.context - doc_start, width)
        doc_end == doc_start + paragraph_len - 1
        real == qlen + paragraph_len + PairAddedTokens(tok)
        in_span == ex.answer_start >= doc_start /\ ex.answer_start + 1 <= doc_end
        pos == IF is_training /\ in_span
               THEN ex.answer_start - doc_start + DocOffset(tok, qlen)
               ELSE 0
    IN  [input_ids |-> Runs(<< Run(ClsId(tok), 1), Run(WordId(1), qlen),
                              Run(SepId(tok), PairAddedTokens(tok) - 2),
                              Run(WordId(2), paragraph_len), Run(SepId(tok), 1),
                              Run(PadId(tok), max_seq_length - real) >>),
         attention_mask |-> Runs(<< Run(1, real), Run(0, max_seq_length - real) >>),
         token_type_ids |-> IF IsRoberta(tok) THEN Runs(<< Run(0, max_seq_length) >>)
                            ELSE Runs(<< Run(0, qlen + 2), Run(1, paragraph_len + 1),
                                         Run(0, max_seq_length - real) >>),
         cls_index |-> 0,
         p_mask |-> Runs(<< Run(0, 1), Run(1, DocOffset(tok, qlen) - 1),
                           Run(0, paragraph_len),
                           Run(1, max_seq_length - DocOffset(tok, qlen) - paragraph_len) >>),
         example_index |-> example_index,
         paragraph_len |-> paragraph_len,
         start_position |-> pos,
         end_position |-> IF pos = 0 THEN 0 ELSE pos + 1,
         is_impossible |-> FALSE,
         qas_id |-> ex.qas_id]

\* The feature windows of all examples, in order.
RECURSIVE Features(_, _, _, _, _, _, _)
Features(tok, examples, i, max_seq_length, stride, max_query_length, is_training) ==
    IF i > Len(examples) THEN <<>>
    ELSE LET ex == examples[i]
             qlen == Min(ex.question, max_query_length)
             n == NumSpans(ex.context, MaxDocTokens(tok, qlen, max_seq_length), stride, 0)
         IN  [k \in 1..n |-> Feature(tok, ex, i - 1, k - 1, max_seq_length, stride,
                                      max_query_length, is_training)]
             \o Features(tok, examples, i + 1, max_seq_length, stride,
                         max_query_length, is_training)

Column(features, field) == [i \in 1..Len(features) |-> features[i][field]]

\* The TensorDataset built from the features: a tuple of column tensors.
\* Training: input_ids, attention_masks, token_type_ids, start_positions,
\* end_positions, cls_index, p_mask, is_impossible.  Evaluation: input_ids,
\* attention_masks, token_type_ids, feature_index, cls_index, p_mask.
TensorDataset(features, is_training) ==
    IF is_training
    THEN << Column(features, "input_ids"), Column(features, "attention_mask"),
            Column(features, "token_type_ids"), Column(features, "start_position"),
            Column(features, "end_position"), Column(features, "cls_index"),
            Column(features, "p_mask"), Column(features, "is_impossible") >>
    ELSE << Column(features, "input_ids"), Column(features, "attention_mask"),
            Column(features, "token_type_ids"), [i \in 1..Len(features) |-> i - 1],
            Column(features, "cls_index"), Column(features, "p_mask") >>

\* squad_convert_examples_to_features(..., return_dataset="pt")
SquadConvert(tok, examples, max_seq_length, stride, max_query_length, is_training) ==
    LET features == Features(tok, examples, 1, max_seq_length, stride,
                             max_query_length, is_training)
    IN  [features |-> features, dataset |-> TensorDataset(features, is_training)]

\* len(dataset) and dataset[id] of a TensorDataset (id 0-based).
DatasetLen(dataset) == Len(dataset[1])

DatasetRow(dataset, id) == [c \in 1..Len(dataset) |-> dataset[c][id + 1]]

QAKeys == <<"features", "dataset", "examples">>

\* The miss branch of CorpusQA.preprocess up to (not including) torch.save.
ConvertQA(f, file, tok, evaluate) ==
    LET got == GetExamples(f, file, evaluate)
        conv == SquadConvert(tok, got.examples, max_seq_len, doc_stride,
                             max_query_len, ~evaluate)
    IN  IF got.error # "ok" THEN [error |-> got.error, bundle |-> None]
        ELSE [error |-> "ok",
              bundle |-> [features |-> conv.features, dataset |-> conv.dataset,
                          examples |-> got.examples]]

DataFields == <<"input_ids", "attention_mask", "token_type_ids", "answer_start", "answer_end">>

\* self.data of CorpusQA.__init__: column i of the whole dataset under key i.
DataQA(dataset) ==
    [key \in {DataFields[i] : i \in 1..Len(DataFields)} |->
        LET i == CHOOSE j \in 1..Len(DataFields) : DataFields[j] = key
        IN  dataset[i]]

\* answer_end read from the column of answer_start.
GetItemQASameColumn(dataset, id) ==
    [input_ids |-> DatasetRow(dataset, id)[1],
     attention_mask |-> DatasetRow(dataset, id)[2],
     token_type_ids |-> DatasetRow(dataset, id)[3],
     answer_start |-> DatasetRow(dataset, id)[4],
     answer_end |-> DatasetRow(dataset, id)[4]]

\* CorpusQA.__len__ and CorpusQA.__getitem__ (id 0-based).
LenQA(dataset) == DatasetLen(dataset)

GetItemQA(dataset, id) ==
    [input_ids |-> DatasetRow(dataset, id)[1],
     attention_mask |-> DatasetRow(dataset, id)[2],
     token_type_ids |-> DatasetRow(dataset, id)[3],
     answer_start |-> DatasetRow(dataset, id)[4],
     answer_end |-> DatasetRow(dataset, id)[5]]

(***************************************************************************)
(* Constructors.  Each returns the file system it leaves behind and the    *)
(* record of the call: outcome "ok" with the instance state, or the error  *)
(* that propagated (no instance), and the steps performed in order.        *)
(***************************************************************************)
Call(cls, model_name, evaluate, key, hit, outcome, ops, data, bundle) ==
    [cls |-> cls, model_name |-> model_name, evaluate |-> evaluate, key |-> key,
     hit |-> hit, outcome |-> outcome, ops |-> ops, data |-> data,
     dataset |-> bundle.dataset, examples |-> bundle.examples,
     features |-> bundle.features]

NoBundle == [dataset |-> None, examples |-> None, features |-> None]

\* The load side alone puts the two swapped fields back under their own names.
HitSCSwapBack(f, model_name, cached_data_file) ==
    LET ld == PickleLoad(f[cached_data_file])
    IN  [fs |-> f,
         call |-> Call("SC", model_name, FALSE, cached_data_file, TRUE, ld.error,
                       <<"exists", "load">>,
                       IF ld.error # "ok" THEN ld.obj
                       ELSE [ld.obj EXCEPT !["token_type_ids"] = ld.obj["attention_mask"],
                                           !["attention_mask"] = ld.obj["token_type_ids"]],
                       NoBundle)]

\* CorpusSC.__init__, cache file present: self.data = pickle.load(...)
HitSC(f, model_name, cached_data_file) ==
    LET ld == PickleLoad(f[cached_data_file])
    IN  [fs |-> f,
         call |-> Call("SC", model_name, FALSE, cached_data_file, TRUE, ld.error,
                       <<"exists", "load">>, ld.obj, NoBundle)]

\* A cache file opened for writing before the data is computed stays behind,
\* empty, when preprocessing fails.
MissSCOpenFirst(f, path, model_name, cached_data_file) ==
    LET pre == PreprocessSC(f, path, TokenizerClass(model_name, TRUE))
    IN  IF pre.error # "ok"
        THEN [fs |-> WriteFile(f, cached_data_file, Garbage),
              call |-> Call("SC", model_name, FALSE, cached_data_file, FALSE,
                            pre.error, <<"exists", "preprocess">>, None, NoBundle)]
        ELSE [fs |-> WriteFile(f, cached_data_file, PickleDump(pre.dataset, SCKeys)),
              call |-> Call("SC", model_name, FALSE, cached_data_file, FALSE, "ok",
                            <<"exists", "preprocess", "dump">>, pre.dataset, NoBundle)]

\* CorpusSC.__init__, no cache file: self.data = self.preprocess(path, file),
\* then pickle.dump(self.data, ...)
MissSC(f, path, model_name, cached_data_file) ==
    LET pre == PreprocessSC(f, path, TokenizerClass(model_name, TRUE))
    IN  IF pre.error # "ok"
        THEN [fs |-> f,
              call |-> Call("SC", model_name, FALSE, cached_data_file, FALSE,
                            pre.error, <<"exists", "preprocess">>, None, NoBundle)]
        ELSE [fs |-> WriteFile(f, cached_data_file, PickleDump(pre.dataset, SCKeys)),
              call |-> Call("SC", model_name, FALSE, cached_data_file, FALSE, "ok",
                            <<"exists", "preprocess", "dump">>, pre.dataset, NoBundle)]

\* The cache file is never consulted: every construction preprocesses and dumps.
LoadOrPreprocessSCNoCache(f, path, model_name, cached_data_file) ==
    MissSC(f, path, model_name, cached_data_file)

\* CorpusSC.__init__, the branch on the cache file.
LoadOrPreprocessSC(f, path, model_name, cached_data_file) ==
    IF Exists(f, cached_data_file)
    THEN HitSC(f, model_name, cached_data_file)
    ELSE MissSC(f, path, model_name, cached_data_file)

\* CorpusSC.__init__
InitSC(f, path, model_name) ==
    LoadOrPreprocessSC(f, path, model_name,
                       CachedDataFile(path, TokenizerClass(model_name, TRUE)))

\* CorpusQA.preprocess, cache file present: torch.load and the three entries;
\* then self.data of CorpusQA.__init__.
HitQA(f, evaluate, model_name, cached_features_file) ==
    LET ld == PickleLoad(f[cached_features_file])
    IN  IF ld.error # "ok"
        THEN [fs |-> f,
              call |-> Call("QA", model_name, evaluate, cached_features_file, TRUE,
                            ld.error, <<"exists", "load">>, None, NoBundle)]
        ELSE [fs |-> f,
              call |-> Call("QA", model_name, evaluate, cached_features_file, TRUE,
                            "ok", <<"exists", "load">>, DataQA(ld.obj["dataset"]), ld.obj)]

\* CorpusQA.preprocess, no cache file: extract, convert, torch.save; then
\* self.data of CorpusQA.__init__.
MissQA(f, path, evaluate, model_name, cached_features_file) ==
    LET conv == ConvertQA(f, path, TokenizerClass(model_name, FALSE), evaluate)
    IN  IF conv.error # "ok"
        THEN [fs |-> f,
              call |-> Call("QA", model_name, evaluate, cached_features_file, FALSE,
                            conv.error, <<"exists", "preprocess">>, None, NoBundle)]
        ELSE [fs |-> WriteFile(f, cached_features_file, PickleDump(conv.bundle, QAKeys)),
              call |-> Call("QA", model_name, evaluate, cached_features_file, FALSE,
                            "ok", <<"exists", "preprocess", "dump">>,
                            DataQA(conv.bundle.dataset), conv.bundle)]

\* A cache entry that no longer matches the source file is rebuilt.
LoadOrConvertQAInvalidating(f, path, evaluate, model_name, cached_features_file) ==
    LET conv == ConvertQA(f, path, TokenizerClass(model_name, FALSE), evaluate)
        stale == /\ conv.error = "ok"
                 /\ f[cached_features_file] # PickleDump(conv.bundle, QAKeys)
    IN  IF Exists(f, cached_features_file) /\ ~stale
        THEN HitQA(f, evaluate, model_name, cached_features_file)
        ELSE MissQA(f, path, evaluate, model_name, cached_features_file)

\* CorpusQA.preprocess, the branch on the cache file.
LoadOrConvertQA(f, path, evaluate, model_name, cached_features_file) ==
    IF Exists(f, cached_features_file)
    THEN HitQA(f, evaluate, model_name, cached_features_file)
    ELSE MissQA(f, path, evaluate, model_name, cached_features_file)

\* The evaluate flag made part of the cache file name.
InitQAFlagInKey(f, path, evaluate, model_name) ==
    LoadOrConvertQA(f, path, evaluate, model_name,
        [CachedFeaturesFile(path, TokenizerClass(model_name, FALSE))
            EXCEPT ![Len(path)] = @ \o <<IF evaluate THEN "_dev" ELSE "_train">>])

\* CorpusQA.__init__ with CorpusQA.preprocess
InitQA(f, path, evaluate, model_name) ==
    LoadOrConvertQA(f, path, evaluate, model_name,
                    CachedFeaturesFile(path, TokenizerClass(model_name, FALSE)))

(***************************************************************************)
(* Inputs.                                                                 *)
(***************************************************************************)
RowChoices ==
    { [premise |-> 4, hypothesis |-> 6, label |-> "entailment"],
      [premise |-> 90, hypothesis |-> 70, label |-> "contradiction"],
      [premise |-> 2, hypothesis |-> 3, label |-> "neutral"],
      [premise |-> 5, hypothesis |-> 5, label |-> "unknown"] }

QaChoices ==
    { [question |-> 10, context |-> 50, answer_start |-> 5],
      [question |-> 70, context |-> 500, answer_start |-> 300] }

SeqsUpTo(S, n) == UNION {[1..k -> S] : k \in 1..n}

SCContents == {[kind |-> "tsv", rows |-> r] : r \in SeqsUpTo(RowChoices, MaxRows)}

QAContents == {[kind |-> "squad", qas |-> q] : q \in SeqsUpTo(QaChoices, MaxExamples)}

CacheKeys ==
    {CachedDataFile(SCPath, TokenizerClass(m, TRUE)) : m \in ModelNames}
    \cup {CachedFeaturesFile(QAPath, TokenizerClass(m, FALSE)) : m \in ModelNames}

NoCall == Call("none", "none", FALSE, <<>>, FALSE, "none", <<>>, None, NoBundle)

(***************************************************************************)
(* The state machine.                                                      *)
(***************************************************************************)
SCFixture == [kind |-> "tsv", rows |-> << [premise |-> 4, hypothesis |-> 6, label |-> "entailment"] >>]

QAFixture == [kind |-> "squad", qas |-> << [question |-> 10, context |-> 50, answer_start |-> 5] >>]

\* The data directory before the first construction: empty, or holding one
\* source file of any content, or both fixture files; no cache file yet.
InitialFileSystems ==
    {<<>>}
    \cup {WriteFile(<<>>, SCPath, c) : c \in SCContents \cup {Garbage}}
    \cup {WriteFile(<<>>, QAPath, c) : c \in QAContents \cup {Garbage}}
    \cup {WriteFile(WriteFile(<<>>, SCPath, SCFixture), QAPath, QAFixture)}

Init ==
    /\ fs \in InitialFileSystems
    /\ last = NoCall
    /\ envSteps = 0

ConstructSC ==
    \E m \in ModelNames :
        /\ fs' = InitSC(fs, SCPath, m).fs
        /\ last' = InitSC(fs, SCPath, m).call
        /\ UNCHANGED envSteps

ConstructQA ==
    \E m \in ModelNames, evaluate \in BOOLEAN :
        /\ fs' = InitQA(fs, QAPath, evaluate, m).fs
        /\ last' = InitQA(fs, QAPath, evaluate, m).call
        /\ UNCHANGED envSteps

\* An environment step: one change to the directory made outside the program.
EnvStep(f) ==
    /\ envSteps < MaxEnvSteps
    /\ fs' = f
    /\ envSteps' = envSteps + 1
    /\ UNCHANGED last

\* The operator edits the pair-classification file: adds or drops a row.
AppendRowSC ==
    /\ Exists(fs, SCPath) /\ fs[SCPath].kind = "tsv"
    /\ Len(fs[SCPath].rows) < MaxRows
    /\ \E r \in RowChoices :
          EnvStep(WriteFile(fs, SCPath, [kind |-> "tsv", rows |-> Append(fs[SCPath].rows, r)]))

DropRowSC ==
    /\ Exists(fs, SCPath) /\ fs[SCPath].kind = "tsv"
    /\ Len(fs[SCPath].rows) > 1
    /\ EnvStep(WriteFile(fs, SCPath,
            [kind |-> "tsv", rows |-> SubSeq(fs[SCPath].rows, 1, Len(fs[SCPath].rows) - 1)]))

\* The operator edits the QA file: adds or drops a question.
AppendExampleQA ==
    /\ Exists(fs, QAPath) /\ fs[QAPath].kind = "squad"
    /\ Len(fs[QAPath].qas) < MaxExamples
    /\ \E q \in QaChoices :
          EnvStep(WriteFile(fs, QAPath, [kind |-> "squad", qas |-> Append(fs[QAPath].qas, q)]))

DropExampleQA ==
    /\ Exists(fs, QAPath) /\ fs[QAPath].kind = "squad"
    /\ Len(fs[QAPath].qas) > 1
    /\ EnvStep(WriteFile(fs, QAPath,
            [kind |-> "squad", qas |-> SubSeq(fs[QAPath].qas, 1, Len(fs[QAPath].qas) - 1)]))

\* A source file is overwritten with malformed content, or removed.
GarbleSource ==
    \E p \in {SCPath, QAPath} \cap DOMAIN fs :
        /\ fs[p] # Garbage
        /\ EnvStep(WriteFile(fs, p, Garbage))

DeleteSource ==
    \E p \in {SCPath, QAPath} \cap DOMAIN fs : EnvStep(RemoveFile(fs, p))

\* The operator deletes a cache file by hand.
DeleteCache ==
    \E k \in CacheKeys \cap DOMAIN fs : EnvStep(RemoveFile(fs, k))

\* A cache file is damaged outside the program.
DamageCache ==
    \E k \in CacheKeys \cap DOMAIN fs :
        /\ fs[k] # Garbage
        /\ EnvStep(WriteFile(fs, k, Garbage))

Next ==
    \/ ConstructSC
    \/ ConstructQA
    \/ AppendRowSC
    \/ DropRowSC
    \/ AppendExampleQA
    \/ DropExampleQA
    \/ GarbleSource
    \/ DeleteSource
    \/ DeleteCache
    \/ DamageCache

Spec == Init /\ [][Next]_vars

(***************************************************************************)
(* Vocabulary of the properties.                                           *)
(***************************************************************************)
\* A step taken by a constructor (every environment step counts envSteps).
ConstructionStep == envSteps' = envSteps

Ok(c) == c.outcome = "ok"

Failed(c) == c.outcome \notin {"ok", "none"}

TokOf(c) == TokenizerClass(c.model_name, c.cls = "SC")

SourceOf(c) == IF c.cls = "SC" THEN SCPath ELSE QAPath

\* The cache file layout of the interface description.
ExpectedKey(c) ==
    IF c.cls = "SC"
    THEN << <<"data">>, <<"sc.tsv", "_", TokOf(c), ".pickle">> >>
    ELSE << <<"data">>, <<"cached_", TokOf(c), "_", "qa.json">> >>

BundleOf(c) == [features |-> c.features, dataset |-> c.dataset, examples |-> c.examples]

\* What a successful miss of call c persists.
Written(c) ==
    IF c.cls = "SC" THEN PickleDump(c.data, SCKeys) ELSE PickleDump(BundleOf(c), QAKeys)

\* Call c holds exactly the content of cache file content.
Serves(c, content) ==
    /\ content.kind = "pickle"
    /\ IF c.cls = "SC"
       THEN \A i \in 1..Len(content.items) : c.data[content.items[i][1]] = content.items[i][2]
       ELSE /\ \A i \in 1..Len(content.items) :
                 BundleOf(c)[content.items[i][1]] = content.items[i][2]
            /\ c.data = DataQA(c.dataset)

LenOf(c) == IF c.cls = "SC" THEN LenSC(c.data) ELSE LenQA(c.dataset)

ItemOf(c, id) == IF c.cls = "SC" THEN GetItemSC(c.data, id) ELSE GetItemQA(c.dataset, id)

SameItems(c, d) ==
    /\ LenOf(c) = LenOf(d)
    /\ \A id \in 0..(LenOf(c) - 1) : ItemOf(c, id) = ItemOf(d, id)

ValidSC(f) == Exists(f, SCPath) /\ f[SCPath].kind = "tsv"

ValidQA(f) == Exists(f, QAPath) /\ f[QAPath].kind = "squad"

(***************************************************************************)
(* C1.  Both constructors follow the cache protocol: the key is built from *)
(* the tokenizer class name and the source path; when a file exists at the *)
(* key the constructor only loads it (no source read, no conversion, no    *)
(* write); otherwise it runs the conversion and persists the result at the *)
(* key before returning; after a successful construction the cache file    *)
(* exists.                                                                 *)
(***************************************************************************)
CacheProtocol ==
    [][ConstructionStep =>
        LET c == last'
        IN  /\ c.key = ExpectedKey(c)
            /\ c.hit = Exists(fs, c.key)
            /\ c.hit => /\ c.ops = <<"exists", "load">>
                        /\ fs' = fs
                        /\ Ok(c) => Serves(c, fs[c.key])
            /\ ~c.hit => /\ c.ops[2] = "preprocess"
                         /\ Ok(c) => /\ c.ops = <<"exists", "preprocess", "dump">>
                                     /\ fs' = WriteFile(fs, c.key, Written(c))
            /\ Ok(c) => Exists(fs', c.key)]_vars

\* A QA construction that hit the cache, and whose source file is gone.
CacheProtocolWitness ==
    /\ last.cls = "QA" /\ last.hit /\ Ok(last)
    /\ ~Exists(fs, QAPath)
    /\ Serves(last, fs[last.key])

(***************************************************************************)
(* C2.  Round trip of the cache: after a construction that missed and      *)
(* wrote the cache, the next construction with the same key (cache file as *)
(* written) hits, succeeds, has the same length and the same value at      *)
(* every index and field, and leaves the cache content as first written.   *)
(***************************************************************************)
CacheRoundTrip ==
    [][(/\ Ok(last) /\ ~last.hit
        /\ Exists(fs, last.key) /\ fs[last.key].kind = "pickle"
        /\ ConstructionStep
        /\ last'.cls = last.cls /\ last'.key = last.key)
       => /\ last'.hit /\ Ok(last')
          /\ SameItems(last, last')
          /\ last'.data = last.data
          /\ fs'[last.key] = fs[last.key]
          /\ fs'[last.key] = Written(last)]_vars

\* A hit on a two-row pair-classification cache that matches the unchanged
\* source file.
CacheRoundTripWitness ==
    /\ last.cls = "SC" /\ last.hit /\ Ok(last)
    /\ LenSC(last.data) = 2
    /\ ValidSC(fs)
    /\ PreprocessSC(fs, SCPath, TokOf(last)).error = "ok"
    /\ PreprocessSC(fs, SCPath, TokOf(last)).dataset = last.data
    /\ fs[last.key] = Written(last)

(***************************************************************************)
(* C3.  Cache lifecycle without invalidation: a file appears in the        *)
(* directory only as the cache entry written by a construction that        *)
(* missed; no construction modifies or deletes an existing cache entry;    *)
(* and a construction whose key holds an entry succeeds as a hit serving   *)
(* that entry, whatever the source file now contains.                      *)
(***************************************************************************)
CacheLifecycle ==
    [][/\ \A k \in DOMAIN fs' \ DOMAIN fs :
             ConstructionStep /\ k = last'.key /\ ~last'.hit /\ Ok(last')
       /\ ConstructionStep =>
             /\ \A k \in CacheKeys \cap DOMAIN fs : Exists(fs', k) /\ fs'[k] = fs[k]
             /\ (Exists(fs, last'.key) /\ fs[last'.key].kind = "pickle")
                   => last'.hit /\ Ok(last') /\ Serves(last', fs[last'.key])]_vars

\* A hit that served stale data: the source file is valid and converting it
\* now would give a different dataset than the one served.
CacheLifecycleWitness ==
    /\ last.cls = "SC" /\ last.hit /\ Ok(last)
    /\ ValidSC(fs)
    /\ PreprocessSC(fs, SCPath, TokOf(last)).error = "ok"
    /\ PreprocessSC(fs, SCPath, TokOf(last)).dataset # last.data
    /\ Serves(last, fs[last.key])

ClassId(text) ==
    CASE text = "contradiction" -> 0
      [] text = "entailment" -> 1
      [] text = "neutral" -> 2
      [] OTHER -> -1

AllLabelsKnown(rows) ==
    \A i \in 1..Len(rows) : rows[i].label \in {"contradiction", "entailment", "neutral"}

(***************************************************************************)
(* C4.  A CorpusSC built on a miss from a file of N rows whose labels are  *)
(* all known has length N, and the label of item i is the class id of the  *)
(* label text of row i (contradiction 0, entailment 1, neutral 2).         *)
(***************************************************************************)
SCLengthAndLabels ==
    [][(/\ ConstructionStep /\ last'.cls = "SC"
        /\ ~Exists(fs, last'.key)
        /\ ValidSC(fs) /\ AllLabelsKnown(fs[SCPath].rows))
       => /\ Ok(last')
          /\ LenSC(last'.data) = Len(fs[SCPath].rows)
          /\ \A id \in 0..(Len(fs[SCPath].rows) - 1) :
                /\ GetItemSC(last'.data, id).label = ClassId(fs[SCPath].rows[id + 1].label)
                /\ GetItemSC(last'.data, id).label \in {0, 1, 2}]_vars

\* A miss on a two-row file with labels contradiction and neutral.
SCLengthAndLabelsWitness ==
    /\ last.cls = "SC" /\ ~last.hit /\ Ok(last)
    /\ LenSC(last.data) = 2
    /\ GetItemSC(last.data, 0).label = 0
    /\ GetItemSC(last.data, 1).label = 2

(***************************************************************************)
(* C5.  On a miss, a pair-classification file with a label outside the     *)
(* dictionary makes the construction fail with a KeyError: no instance, no *)
(* default label, nothing written.                                         *)
(***************************************************************************)
UnknownLabelFails ==
    [][(/\ ConstructionStep /\ last'.cls = "SC"
        /\ ~Exists(fs, last'.key)
        /\ ValidSC(fs) /\ ~AllLabelsKnown(fs[SCPath].rows))
       => /\ last'.outcome = "KeyError"
          /\ last'.data = None
          /\ fs' = fs]_vars

\* A KeyError on a two-row file whose first row has a known label.
UnknownLabelFailsWitness ==
    /\ last.cls = "SC" /\ last.outcome = "KeyError"
    /\ ValidSC(fs) /\ Len(fs[SCPath].rows) = 2
    /\ fs[SCPath].rows[1].label = "entailment"
    /\ fs[SCPath].rows[2].label = "unknown"
    /\ ~Exists(fs, last.key)

(***************************************************************************)
(* C6.  As claimed: every item of a CorpusSC has input_ids, token_type_ids *)
(* and attention_mask of length exactly 128.                               *)
(***************************************************************************)
SCFixedLength128 ==
    (last.cls = "SC" /\ Ok(last)) =>
        \A id \in 0..(LenSC(last.data) - 1) :
            /\ SeqLength(GetItemSC(last.data, id).input_ids) = 128
            /\ SeqLength(GetItemSC(last.data, id).token_type_ids) = 128
            /\ SeqLength(GetItemSC(last.data, id).attention_mask) = 128

\* Tokens of a row before truncation: both texts and the special tokens.
RawPairLength(c, row) == row.premise + row.hypothesis + PairAddedTokens(TokOf(c))

UniformLength(data, n) ==
    \A id \in 0..(LenSC(data) - 1) :
        /\ SeqLength(GetItemSC(data, id).input_ids) = n
        /\ SeqLength(GetItemSC(data, id).token_type_ids) = n
        /\ SeqLength(GetItemSC(data, id).attention_mask) = n

(***************************************************************************)
(* C6 as amended.  All items of a CorpusSC have the same length L in all   *)
(* three sequence fields, with L at most 128; on a miss L is the smaller   *)
(* of 128 and the token count of the longest pair of the file, so pairs    *)
(* longer than 128 are truncated to 128 and shorter pairs are padded to L, *)
(* which is below 128 when every pair of the file is shorter than 128.     *)
(***************************************************************************)
SCUniformLength ==
    [][(ConstructionStep /\ last'.cls = "SC" /\ Ok(last'))
       => /\ \E n \in 1..128 : UniformLength(last'.data, n)
          /\ ~last'.hit =>
                UniformLength(last'.data,
                    Min(128, MaxOf([i \in 1..Len(fs[SCPath].rows) |->
                                      RawPairLength(last', fs[SCPath].rows[i])])))]_vars

\* A miss on a file of two pairs of different lengths, both shorter than 128:
\* the items are padded to the longer pair, not to 128.
SCUniformLengthWitness ==
    /\ last.cls = "SC" /\ ~last.hit /\ Ok(last)
    /\ LenSC(last.data) = 2
    /\ SeqLength(GetItemSC(last.data, 0).input_ids) < 128
    /\ SeqLength(GetItemSC(last.data, 0).input_ids) = SeqLength(GetItemSC(last.data, 1).input_ids)
    /\ GetItemSC(last.data, 0).input_ids # GetItemSC(last.data, 1).input_ids

(***************************************************************************)
(* C7.  The length of a CorpusQA is the number of rows of the converted    *)
(* dataset (one per feature), and every index in range yields exactly the  *)
(* five named fields, taken from columns 0..4 of that row in this order,   *)
(* the three sequence fields being 384 long; for both values of evaluate   *)
(* and for data loaded from the cache.                                     *)
(***************************************************************************)
QAItems ==
    (last.cls = "QA" /\ Ok(last)) =>
        /\ LenQA(last.dataset) = Len(last.features)
        /\ \A c \in 1..Len(last.dataset) : Len(last.dataset[c]) = Len(last.features)
        /\ \A id \in 0..(Len(last.features) - 1) :
              LET item == GetItemQA(last.dataset, id)
              IN  /\ DOMAIN item = {"input_ids", "attention_mask", "token_type_ids",
                                    "answer_start", "answer_end"}
                  /\ item.input_ids = last.dataset[1][id + 1]
                  /\ item.attention_mask = last.dataset[2][id + 1]
                  /\ item.token_type_ids = last.dataset[3][id + 1]
                  /\ item.answer_start = last.dataset[4][id + 1]
                  /\ item.answer_end = last.dataset[5][id + 1]
                  /\ SeqLength(item.input_ids) = 384
                  /\ SeqLength(item.attention_mask) = 384
                  /\ SeqLength(item.token_type_ids) = 384

\* An evaluate construction served from the cache with several windows.
QAItemsWitness ==
    /\ last.cls = "QA" /\ Ok(last) /\ last.hit /\ last.evaluate
    /\ LenQA(last.dataset) >= 3
    /\ GetItemQA(last.dataset, 2).input_ids # GetItemQA(last.dataset, 0).input_ids

(***************************************************************************)
(* C8.  CorpusSC swaps two field names: on a miss, item i has the          *)
(* tokenizer's attention_mask row i under token_type_ids and its           *)
(* token_type_ids row i under attention_mask, input_ids unchanged; the     *)
(* cache file holds the same swapped assignment and a hit serves it.       *)
(***************************************************************************)
SCFieldSwap ==
    [][(ConstructionStep /\ last'.cls = "SC" /\ Ok(last'))
       => LET c == last'
          IN  /\ ~c.hit =>
                    LET ids == Tokenize(TokOf(c), fs[SCPath].rows, 128)
                    IN  \A id \in 0..(Len(fs[SCPath].rows) - 1) :
                            /\ GetItemSC(c.data, id).token_type_ids = ids.attention_mask[id + 1]
                            /\ GetItemSC(c.data, id).attention_mask = ids.token_type_ids[id + 1]
                            /\ GetItemSC(c.data, id).input_ids = ids.input_ids[id + 1]
              /\ \E i, j \in 1..Len(fs'[c.key].items) :
                    /\ fs'[c.key].items[i] = <<"token_type_ids", c.data.token_type_ids>>
                    /\ fs'[c.key].items[j] = <<"attention_mask", c.data.attention_mask>>]_vars

\* A hit whose token_type_ids field holds an attention mask (ones then
\* padding zeros) that differs from its attention_mask field.
SCFieldSwapWitness ==
    /\ last.cls = "SC" /\ last.hit /\ Ok(last)
    /\ TokOf(last) = "BertTokenizerFast"
    /\ LenSC(last.data) = 2
    /\ \E n \in 1..127 :
          GetItemSC(last.data, 1).token_type_ids = <<Run(1, n), Run(0, 128 - n)>>
    /\ GetItemSC(last.data, 1).token_type_ids # GetItemSC(last.data, 1).attention_mask

SameFamily(m1, m2) ==
    (m1 = "bert-base-multilingual-cased") = (m2 = "bert-base-multilingual-cased")

(***************************************************************************)
(* C9.  The CorpusQA cache key ignores the evaluate flag and the model     *)
(* name: after a construction that missed, a construction on the same file *)
(* with the other value of evaluate and a model of the same tokenizer      *)
(* class hits the cache and returns the features, dataset and examples of  *)
(* the first construction, without running the example extraction.        *)
(***************************************************************************)
QAKeyIgnoresFlag ==
    [][(/\ last.cls = "QA" /\ Ok(last) /\ ~last.hit
        /\ Exists(fs, last.key) /\ fs[last.key] = Written(last)
        /\ ConstructionStep /\ last'.cls = "QA"
        /\ SameFamily(last'.model_name, last.model_name)
        /\ last'.evaluate # last.evaluate)
       => /\ last'.hit /\ Ok(last')
          /\ last'.key = last.key
          /\ last'.ops = <<"exists", "load">>
          /\ BundleOf(last') = BundleOf(last)
          /\ \A i \in 1..Len(last'.examples) :
                last'.examples[i].extraction = (IF last.evaluate THEN "dev" ELSE "train")
          /\ fs' = fs]_vars

\* An evaluate construction with another model name served train-mode data.
QAKeyIgnoresFlagWitness ==
    /\ last.cls = "QA" /\ Ok(last) /\ last.hit /\ last.evaluate
    /\ last.model_name = "xlm-roberta-large"
    /\ last.examples[1].extraction = "train"
    /\ Len(last.dataset) = 8

====
